---- MODULE Spec2Model ----
(***************************************************************************)
(* The three browser-automation verification scripts of src/verification:  *)
(* verify_minesweeper.py, verify_minesweeper_focus.py and verify_snake.py. *)
(* Each script is a straight-line list of calls into the browser library,  *)
(* wrapped in with / try / except / finally.  The model is the control     *)
(* flow of each script, statement by statement, with the application under *)
(* test as the environment: it decides which page calls raise.             *)
(***************************************************************************)
EXTENDS Integers, Sequences, FiniteSets

(* Bounds of the model. *)
MaxFaults == 2   \* how many distinct page calls the application makes raise
MaxRuns == 2     \* how many times the script is invoked in a row

Scripts == {"verify_minesweeper", "verify_minesweeper_focus", "verify_snake"}

I(op, arg, line) == [op |-> op, arg |-> arg, line |-> line]

(* verify_minesweeper.py in execution order: __main__ lines 43-45, the body *)
(* of test_minesweeper (lines 5-40), then lines 48-53.                      *)
verify_minesweeper ==
  << I("with_enter", "sync_playwright", 43),
     I("launch", "chromium", 44),
     I("new_page", "", 45),
     I("goto", "http://localhost:5173/games", 5),
     I("click", "tab:Mines", 10),
     I("expect_visible", "text:Minesweeper ready", 14),
     I("screenshot", "/home/jules/verification/minesweeper_initial.png", 17),
     I("expect_visible", "grid:Minesweeper game board", 25),
     I("click", "button:Row 5, Column 5", 30),
     I("expect_visible", "text:Playing Minesweeper", 34),
     I("wait_for_timeout", "2000", 37),
     I("screenshot", "/home/jules/verification/minesweeper_playing.png", 40),
     I("print", "Verification script ran successfully.", 48),
     I("print_failed", "Verification failed: ", 50),
     I("screenshot", "/home/jules/verification/error.png", 51),
     I("close", "browser", 53),
     I("with_exit", "sync_playwright", 43),
     I("end", "", 53) >>

(* verify_minesweeper_focus.py: test_minesweeper_focus (lines 4-51), then   *)
(* __main__ lines 56-59.                                                    *)
verify_minesweeper_focus ==
  << I("with_enter", "sync_playwright", 4),
     I("launch", "chromium", 5),
     I("new_page", "", 6),
     I("print", "Navigating to Games page...", 9),
     I("goto", "http://localhost:5173/games", 10),
     I("expect_visible", "tab:Mines", 13),
     I("print", "Selecting Minesweeper...", 16),
     I("click", "tab:Mines", 17),
     I("expect_visible", "grid:Minesweeper game board", 22),
     I("print", "Minesweeper loaded.", 24),
     I("print", "Clicking cell (0,0)...", 31),
     I("click", "button:Row 1, Column 1", 32),
     I("expect_focused", "button:Row 1, Column 1", 35),
     I("print", "Cell (0,0) focused.", 36),
     I("print", "Pressing ArrowRight...", 39),
     I("press", "ArrowRight", 40),
     I("expect_focused", "button:Row 1, Column 2", 44),
     I("print", "Cell (0,1) focused successfully!", 45),
     I("screenshot", "verification/minesweeper_focus.png", 48),
     I("print", "Screenshot saved to verification/minesweeper_focus.png", 49),
     I("close", "browser", 51),
     I("with_exit", "sync_playwright", 4),
     I("print", "Verification successful!", 56),
     I("print_failed", "Verification failed: ", 58),
     I("exit", "1", 59),
     I("end", "", 59) >>

(* verify_snake.py: run (lines 5-42), called from __main__ line 45.         *)
verify_snake ==
  << I("with_enter", "sync_playwright", 5),
     I("launch", "chromium", 6),
     I("new_context", "1280x800", 7),
     I("new_page", "", 8),
     I("print", "Navigating to /games...", 11),
     I("goto", "http://localhost:5173/games", 12),
     I("wait_for_load_state", "networkidle", 15),
     I("print", "Clicking Snake tab...", 18),
     I("click", "tab:Snake", 20),
     I("print", "Waiting for Snake game to load...", 23),
     I("wait_for_selector", "text=Snake Game", 24),
     I("print", "Starting game...", 27),
     I("click", "button:Start Game", 29),
     I("sleep", "1", 32),
     I("expect_visible", "img:Snake game board", 36),
     I("print", "Taking screenshot...", 38),
     I("screenshot", "verification/snake_game.png", 39),
     I("close", "browser", 41),
     I("print", "Done.", 42),
     I("with_exit", "sync_playwright", 5),
     I("end", "", 45) >>

Prog(s) ==
  CASE s = "verify_minesweeper" -> verify_minesweeper
    [] s = "verify_minesweeper_focus" -> verify_minesweeper_focus
    [] s = "verify_snake" -> verify_snake

(* Calls on the page that block on the application and can raise: each    *)
(* returns or raises within its timeout.  Starting the driver, launching   *)
(* the browser, opening the page and browser.close() are taken to succeed: *)
(* the properties are about runs in which a Session exists.                *)
StepOps == {"goto", "click", "press", "expect_visible", "expect_focused",
            "wait_for_load_state", "wait_for_selector", "wait_for_timeout"}

PageOps == StepOps \cup {"screenshot"}

Fallible(s) == {i \in 1..Len(Prog(s)) : Prog(s)[i].op \in PageOps}

(* Entry of the except clause that catches Exception; 0 when there is none. *)
Handler(s) ==
  CASE s = "verify_minesweeper" -> 14
    [] s = "verify_minesweeper_focus" -> 24
    [] s = "verify_snake" -> 0

(* The steps of the scenario: the page calls outside the except clause. *)
ScenarioSteps(s) == {i \in Fallible(s) : Handler(s) = 0 \/ i < Handler(s)}

(* Variant of Succ: verify_snake closes the browser before it takes the   *)
(* screenshot.                                                             *)
SuccCloseFirst(s, i) ==
  CASE s = "verify_minesweeper" /\ i = 13 -> 16
    [] s = "verify_minesweeper_focus" /\ i = 23 -> 26
    [] s = "verify_snake" /\ i = 16 -> 18
    [] s = "verify_snake" /\ i = 18 -> 17
    [] s = "verify_snake" /\ i = 17 -> 19
    [] OTHER -> i + 1

(* Normal successor of statement i: the next statement, except that the    *)
(* end of a try body skips the except clause.                              *)
Succ(s, i) ==
  CASE s = "verify_minesweeper" /\ i = 13 -> 16
    [] s = "verify_minesweeper_focus" /\ i = 23 -> 26
    [] OTHER -> i + 1

(* Variant of OnRaise: a raising statement is ignored and the script goes  *)
(* on with the statement after it.                                         *)
OnRaiseIgnore(s, i) == i + 1

(* Variant of OnRaise: verify_minesweeper without the finally clause, so   *)
(* that an exception of the except clause skips browser.close().           *)
OnRaiseSkipFinally(s, i) ==
  CASE s = "verify_minesweeper" /\ i = 1 -> 18
    [] s = "verify_minesweeper" /\ i \in {2, 3} -> 17
    [] s = "verify_minesweeper" /\ i >= 4 /\ i <= 13 -> 14
    [] s = "verify_minesweeper" /\ i >= 14 /\ i <= 16 -> 17
    [] s = "verify_minesweeper" /\ i >= 17 -> 18
    [] s = "verify_minesweeper_focus" /\ i = 1 -> 24
    [] s = "verify_minesweeper_focus" /\ i >= 2 /\ i <= 21 -> 22
    [] s = "verify_minesweeper_focus" /\ i \in {22, 23} -> 24
    [] s = "verify_minesweeper_focus" /\ i >= 24 -> 26
    [] s = "verify_snake" /\ i = 1 -> 21
    [] s = "verify_snake" /\ i >= 2 /\ i <= 19 -> 20
    [] s = "verify_snake" /\ i >= 20 -> 21

(* Where control goes when statement i raises, or when a cleanup statement *)
(* (finally, with-exit) finishes with an exception pending.                *)
OnRaise(s, i) ==
  CASE s = "verify_minesweeper" /\ i = 1 -> 18
    [] s = "verify_minesweeper" /\ i \in {2, 3} -> 17
    [] s = "verify_minesweeper" /\ i >= 4 /\ i <= 13 -> 14
    [] s = "verify_minesweeper" /\ i \in {14, 15} -> 16
    [] s = "verify_minesweeper" /\ i = 16 -> 17
    [] s = "verify_minesweeper" /\ i >= 17 -> 18
    [] s = "verify_minesweeper_focus" /\ i = 1 -> 24
    [] s = "verify_minesweeper_focus" /\ i >= 2 /\ i <= 21 -> 22
    [] s = "verify_minesweeper_focus" /\ i \in {22, 23} -> 24
    [] s = "verify_minesweeper_focus" /\ i >= 24 -> 26
    [] s = "verify_snake" /\ i = 1 -> 21
    [] s = "verify_snake" /\ i >= 2 /\ i <= 19 -> 20
    [] s = "verify_snake" /\ i >= 20 -> 21

(* Variant of WriteFile: an existing file is kept and a numbered copy is   *)
(* written next to it.                                                     *)
WriteFileAccumulate(fs, path) ==
  IF path \in fs THEN fs \cup {path \o ".1"} ELSE fs \cup {path}

(* page.screenshot(path=...) writes the image at a fixed path: an existing *)
(* file of that name is replaced.                                          *)
WriteFile(fs, path) == fs \cup {path}

NoExit == 0 - 1

VARIABLES
  script,       \* which of the three scripts runs
  fails,        \* application behaviour: the page calls that raise
  run,          \* number of the current invocation
  pc,           \* statement about to execute; 0 once the process has ended
  exc,          \* pending exception: index of the statement that raised, or 0
  caught,       \* exception bound to e in the except clause, or 0
  playwright,   \* the sync_playwright scope: "none", "started", "stopped"
  browser,      \* the Browser handle: "none", "open", "closed"
  context,      \* the BrowserContext of verify_snake: "none", "open"
  page,         \* the Page: "none", "open"
  launchCalls,  \* calls of chromium.launch in this invocation
  closeCalls,   \* calls of browser.close in this invocation
  stdout,       \* lines printed in this invocation
  files,        \* screenshot files on disk (kept across invocations)
  exitCode,     \* exit code of the process, NoExit while it runs
  uncaught,     \* exception that left the process, or 0
  trace,        \* statements executed in this invocation, in order
  prev          \* files, exit code and output of the previous invocation

vars == << script, fails, run, pc, exc, caught, playwright, browser, context,
           page, launchCalls, closeCalls, stdout, files, exitCode, uncaught,
           trace, prev >>

(* The Session is the browser owned by the running sync_playwright scope:  *)
(* it ends with browser.close() or when the scope is left, whichever comes *)
(* first.                                                                  *)
SessionLive == playwright = "started" /\ browser = "open"

LiveSessions ==
  IF playwright = "started" THEN launchCalls - closeCalls ELSE 0

Cur == Prog(script)[pc]

At(ops) == pc # 0 /\ Cur.op \in ops

(* A page call raises when the application misbehaves at it, or when there *)
(* is no live page to drive.                                               *)
Raises(i) == i \in fails \/ ~SessionLive \/ page # "open"

Event(ok) == [idx |-> pc, ok |-> ok, live |-> SessionLive]

(* Transfer of control after statement pc raised exception e (or finished  *)
(* as cleanup with e pending).                                             *)
Propagate(e) ==
  LET t == OnRaise(script, pc) IN
    /\ pc' = t
    /\ IF t = Handler(script)
         THEN exc' = 0 /\ caught' = e
         ELSE exc' = e /\ UNCHANGED caught

Continue ==
  IF exc = 0
    THEN pc' = Succ(script, pc) /\ UNCHANGED << exc, caught >>
    ELSE Propagate(exc)

ProcessStart ==
  /\ pc = 1 /\ exc = 0 /\ caught = 0
  /\ playwright = "none" /\ browser = "none" /\ context = "none"
  /\ page = "none"
  /\ launchCalls = 0 /\ closeCalls = 0
  /\ stdout = << >> /\ exitCode = NoExit /\ uncaught = 0
  /\ trace = << >>

Init ==
  /\ script \in Scripts
  /\ fails \in {F \in SUBSET Fallible(script) : Cardinality(F) <= MaxFaults}
  /\ run = 1
  /\ files = {}
  /\ prev = [files |-> {}, exitCode |-> NoExit, stdout |-> << >>]
  /\ ProcessStart

(* with sync_playwright() as p: *)
EnterPlaywright ==
  /\ At({"with_enter"})
  /\ playwright' = "started"
  /\ trace' = Append(trace, Event(TRUE))
  /\ Continue
  /\ UNCHANGED << script, fails, run, browser, context, page, launchCalls,
                  closeCalls, stdout, files, exitCode, uncaught, prev >>

(* browser = p.chromium.launch(headless=True) *)
Launch ==
  /\ At({"launch"})
  /\ browser' = "open"
  /\ launchCalls' = launchCalls + 1
  /\ trace' = Append(trace, Event(TRUE))
  /\ Continue
  /\ UNCHANGED << script, fails, run, playwright, context, page, closeCalls,
                  stdout, files, exitCode, uncaught, prev >>

(* context = browser.new_context(viewport=...) *)
NewContext ==
  /\ At({"new_context"})
  /\ context' = "open"
  /\ trace' = Append(trace, Event(TRUE))
  /\ Continue
  /\ UNCHANGED << script, fails, run, playwright, browser, page, launchCalls,
                  closeCalls, stdout, files, exitCode, uncaught, prev >>

(* page = browser.new_page()  /  page = context.new_page() *)
NewPage ==
  /\ At({"new_page"})
  /\ page' = "open"
  /\ trace' = Append(trace, Event(TRUE))
  /\ Continue
  /\ UNCHANGED << script, fails, run, playwright, browser, context,
                  launchCalls, closeCalls, stdout, files, exitCode, uncaught,
                  prev >>

(* print("...") and print(f"Verification failed: {e}") *)
PrintLine ==
  /\ At({"print", "print_failed"})
  /\ stdout' = Append(stdout,
                 [text |-> Cur.arg,
                  e |-> IF Cur.op = "print_failed" THEN caught ELSE 0])
  /\ trace' = Append(trace, Event(TRUE))
  /\ Continue
  /\ UNCHANGED << script, fails, run, playwright, browser, context, page,
                  launchCalls, closeCalls, files, exitCode, uncaught, prev >>

(* page.goto, locator.click, keyboard.press, expect(...), page.wait_for_*:  *)
(* returns, or raises after its timeout.                                    *)
PageStep ==
  /\ At(StepOps)
  /\ IF Raises(pc)
       THEN /\ trace' = Append(trace, Event(FALSE))
            /\ Propagate(pc)
       ELSE /\ trace' = Append(trace, Event(TRUE))
            /\ Continue
  /\ UNCHANGED << script, fails, run, playwright, browser, context, page,
                  launchCalls, closeCalls, stdout, files, exitCode, uncaught,
                  prev >>

(* page.screenshot(path=...) *)
Screenshot ==
  /\ At({"screenshot"})
  /\ IF Raises(pc)
       THEN /\ trace' = Append(trace, Event(FALSE))
            /\ Propagate(pc)
            /\ UNCHANGED files
       ELSE /\ trace' = Append(trace, Event(TRUE))
            /\ files' = WriteFile(files, Cur.arg)
            /\ Continue
  /\ UNCHANGED << script, fails, run, playwright, browser, context, page,
                  launchCalls, closeCalls, stdout, exitCode, uncaught, prev >>

(* time.sleep(1) *)
Sleep ==
  /\ At({"sleep"})
  /\ trace' = Append(trace, Event(TRUE))
  /\ Continue
  /\ UNCHANGED << script, fails, run, playwright, browser, context, page,
                  launchCalls, closeCalls, stdout, files, exitCode, uncaught,
                  prev >>

(* browser.close(): also closes the browser's contexts and pages. *)
Close ==
  /\ At({"close"})
  /\ browser' = "closed"
  /\ context' = "none"
  /\ page' = "none"
  /\ closeCalls' = closeCalls + 1
  /\ trace' = Append(trace, Event(TRUE))
  /\ Continue
  /\ UNCHANGED << script, fails, run, playwright, launchCalls, stdout, files,
                  exitCode, uncaught, prev >>

(* Variant of ExitPlaywright: the driver is started without a with block   *)
(* and never stopped.                                                      *)
ExitPlaywrightNoStop ==
  /\ At({"with_exit"})
  /\ trace' = Append(trace, Event(TRUE))
  /\ Continue
  /\ UNCHANGED << script, fails, run, playwright, browser, context, page,
                  launchCalls, closeCalls, stdout, files, exitCode, uncaught,
                  prev >>

(* Leaving the with block, normally or with an exception pending: the      *)
(* playwright driver is stopped, which ends whatever it still drives.      *)
ExitPlaywright ==
  /\ At({"with_exit"})
  /\ playwright' = "stopped"
  /\ context' = "none"
  /\ page' = "none"
  /\ trace' = Append(trace, Event(TRUE))
  /\ Continue
  /\ UNCHANGED << script, fails, run, browser, launchCalls, closeCalls,
                  stdout, files, exitCode, uncaught, prev >>

(* exit(1): SystemExit is not an Exception, nothing catches it. *)
SysExit ==
  /\ At({"exit"})
  /\ exitCode' = 1
  /\ pc' = 0
  /\ trace' = Append(trace, Event(TRUE))
  /\ UNCHANGED << script, fails, run, exc, caught, playwright, browser,
                  context, page, launchCalls, closeCalls, stdout, files,
                  uncaught, prev >>

(* The interpreter leaves the script: exit code 0, or a traceback and exit *)
(* code 1 when an exception is still pending.                              *)
End ==
  /\ At({"end"})
  /\ exitCode' = IF exc = 0 THEN 0 ELSE 1
  /\ uncaught' = exc
  /\ pc' = 0
  /\ UNCHANGED << script, fails, run, exc, caught, playwright, browser,
                  context, page, launchCalls, closeCalls, stdout, files,
                  trace, prev >>

(* The script is invoked again, as a new process, against an application   *)
(* that behaves the same; only the files on disk survive.                  *)
Rerun ==
  /\ pc = 0
  /\ run < MaxRuns
  /\ run' = run + 1
  /\ prev' = [files |-> files, exitCode |-> exitCode, stdout |-> stdout]
  /\ pc' = 1 /\ exc' = 0 /\ caught' = 0
  /\ playwright' = "none" /\ browser' = "none" /\ context' = "none"
  /\ page' = "none"
  /\ launchCalls' = 0 /\ closeCalls' = 0
  /\ stdout' = << >> /\ exitCode' = NoExit /\ uncaught' = 0
  /\ trace' = << >>
  /\ UNCHANGED << script, fails, files >>

Next ==
  \/ EnterPlaywright
  \/ Launch
  \/ NewContext
  \/ NewPage
  \/ PrintLine
  \/ PageStep
  \/ Screenshot
  \/ Sleep
  \/ Close
  \/ ExitPlaywright
  \/ SysExit
  \/ End
  \/ Rerun

Spec == Init /\ [][Next]_vars

(* The interpreter always executes the next statement. *)
LiveSpec == Spec /\ WF_vars(Next)

(* The readiness signal awaited after the tab was activated. *)
ReadinessStep(s) ==
  CASE s = "verify_minesweeper" -> 6
    [] s = "verify_minesweeper_focus" -> 9
    [] s = "verify_snake" -> 11

(* The line each script prints when the scenario went through. *)
SuccessMarker(s) ==
  CASE s = "verify_minesweeper" -> "Verification script ran successfully."
    [] s = "verify_minesweeper_focus" -> "Verification successful!"
    [] s = "verify_snake" -> "Done."

TypeOK ==
  /\ script \in Scripts
  /\ pc \in 0..Len(Prog(script))
  /\ run \in 1..MaxRuns
  /\ exitCode \in {NoExit, 0, 1}

(***************************************************************************)
(* Vocabulary of the properties.                                           *)
(***************************************************************************)
Ended == pc = 0

Events == 1..Len(trace)

OpOf(k) == Prog(script)[trace[k].idx].op

Executed(i) == \E k \in Events : trace[k].idx = i

Succeeded(i) == \E k \in Events : trace[k].idx = i /\ trace[k].ok

Failed(i) == \E k \in Events : trace[k].idx = i /\ ~trace[k].ok

StepFailed == \E i \in ScenarioSteps(script) : Failed(i)

Printed(text) == \E k \in 1..Len(stdout) : stdout[k].text = text

MarkerPrinted == Printed(SuccessMarker(script))

FailurePrinted == Printed("Verification failed: ")

(* The screenshot taken inside the except clause. *)
DiagnosticShots(s) == Fallible(s) \ ScenarioSteps(s)

(* The Evidence screenshots: those taken by the scenario itself. *)
EvidenceShots(s) == {i \in ScenarioSteps(s) : Prog(s)[i].op = "screenshot"}

FinalEvidence(s) ==
  CHOOSE i \in EvidenceShots(s) : \A j \in EvidenceShots(s) : j <= i

Releases(k) == OpOf(k) \in {"close", "with_exit"}

(* C1 as stated: the Session is opened exactly once and browser.close is   *)
(* called exactly once by the time the run ends, failing runs included.    *)
C1_OpenedOnceClosedOnce == Ended => launchCalls = 1 /\ closeCalls = 1

(* C1: the Session is opened exactly once and released exactly once by the *)
(* time the run ends; browser.close is called once in every run of         *)
(* verify_minesweeper and in the runs of the other two scripts in which no *)
(* step fails, and not at all in their failing runs, where only leaving    *)
(* the sync_playwright scope ends the Session.                             *)
C1_OpenedOnceReleasedOnce ==
  Ended =>
    /\ launchCalls = 1
    /\ ~SessionLive
    /\ Cardinality({k \in Events : Releases(k) /\ trace[k].live}) = 1
    /\ closeCalls =
         IF script = "verify_minesweeper" \/ ~StepFailed THEN 1 ELSE 0

C1_Witness ==
  /\ Ended /\ script = "verify_snake" /\ StepFailed
  /\ closeCalls = 0 /\ browser = "open" /\ playwright = "stopped"

(* C2: at most one Session is live; every page call (navigate, click, key  *)
(* press, wait, assert, screenshot) executes while the Session is live;    *)
(* no screenshot is taken after the Session was released.                  *)
C2_StepsInsideSession ==
  /\ LiveSessions <= 1
  /\ \A k \in Events : OpOf(k) \in PageOps => trace[k].live
  /\ \A k \in Events : OpOf(k) = "screenshot" =>
       \A j \in 1..(k - 1) : ~Releases(j)

C2_Witness ==
  /\ Ended /\ script = "verify_minesweeper" /\ closeCalls = 1
  /\ \E i \in DiagnosticShots(script) : Executed(i)
  /\ \E i \in EvidenceShots(script) : Succeeded(i)

(* C3: in each script, when a scenario step fails a diagnostic screenshot  *)
(* is attempted after the failure and before the Session is released.      *)
C3_DiagnosticOnFailure ==
  (Ended /\ StepFailed) =>
    \E k \in Events :
      /\ trace[k].idx \in DiagnosticShots(script)
      /\ \E j \in 1..(k - 1) :
           trace[j].idx \in ScenarioSteps(script) /\ ~trace[j].ok
      /\ \A j \in 1..(k - 1) : ~Releases(j)

(* C4: the exit code is non-zero exactly when some scenario step failed.   *)
C4_ExitCodeTellsOutcome == Ended => (exitCode # 0 <=> StepFailed)

(* C5: when the readiness wait after activating the tab times out, the run *)
(* terminates, with a failure indication and with the Session released.    *)
FailureIndicated == exitCode \notin {NoExit, 0} \/ FailurePrinted

C5_ReadinessTimeoutTerminates ==
  Failed(ReadinessStep(script)) ~> (Ended /\ FailureIndicated /\ ~SessionLive)

C5_Witness ==
  /\ Ended /\ Failed(ReadinessStep(script))
  /\ FailureIndicated /\ ~SessionLive

(* C6: in verify_minesweeper and verify_minesweeper_focus a failing step   *)
(* is caught, a diagnostic screenshot is attempted, the failure message is *)
(* printed and the process ends with no unhandled exception and with the   *)
(* Session released; in verify_snake the fault leaves the process.         *)
C6_CatchAndReport ==
  (Ended /\ StepFailed) =>
    IF script = "verify_snake"
      THEN uncaught # 0
      ELSE /\ caught # 0
           /\ \E i \in DiagnosticShots(script) : Executed(i)
           /\ FailurePrinted
           /\ uncaught = 0
           /\ ~SessionLive

(* C7: the success marker is printed only when every scenario step         *)
(* succeeded, and then an Evidence screenshot is already on disk; a run    *)
(* with a failed step prints no marker and does not write the final        *)
(* Evidence screenshot.                                                    *)
C7_MarkerMeansSuccess ==
  /\ MarkerPrinted =>
       /\ \A i \in ScenarioSteps(script) : Succeeded(i)
       /\ \E i \in EvidenceShots(script) :
            Succeeded(i) /\ Prog(script)[i].arg \in files
  /\ StepFailed =>
       ~MarkerPrinted /\ ~Succeeded(FinalEvidence(script))

C7_Witness ==
  /\ Ended /\ MarkerPrinted /\ ~StepFailed
  /\ Succeeded(FinalEvidence(script))

(* C8: a second run against the same application behaviour leaves the same *)
(* set of screenshot paths as the run before it, and ends with the same    *)
(* outcome.                                                                *)
C8_EvidenceIdempotent ==
  (Ended /\ run > 1) =>
    /\ files = prev.files
    /\ exitCode = prev.exitCode
    /\ stdout = prev.stdout

C8_Witness == Ended /\ run > 1 /\ files # {} /\ prev.files # {}

(* C9: scenario steps run in program order, each at most once, each only   *)
(* after all the steps before it succeeded, none after a failed one; so    *)
(* ArrowRight is pressed only after 'Row 1, Column 1' was asserted focused *)
(* and 'Row 5, Column 5' is clicked only after the ready text and the grid *)
(* were asserted visible.                                                  *)
Stmt(s, op, arg) ==
  CHOOSE i \in 1..Len(Prog(s)) : Prog(s)[i].op = op /\ Prog(s)[i].arg = arg

SucceededBefore(i, k) ==
  \E m \in 1..(k - 1) : trace[m].idx = i /\ trace[m].ok

C9_ProgramOrderNoRetry ==
  \A k \in Events :
    trace[k].idx \in ScenarioSteps(script) =>
      /\ \A i \in ScenarioSteps(script) :
           i < trace[k].idx => SucceededBefore(i, k)
      /\ \A m \in Events : m # k => trace[m].idx # trace[k].idx
      /\ \A m \in 1..(k - 1) :
           trace[m].idx \in ScenarioSteps(script) => trace[m].ok
      /\ (script = "verify_minesweeper_focus" /\ OpOf(k) = "press") =>
           SucceededBefore(
             Stmt(script, "expect_focused", "button:Row 1, Column 1"), k)
      /\ (script = "verify_minesweeper"
            /\ trace[k].idx = Stmt(script, "click", "button:Row 5, Column 5"))
           => /\ SucceededBefore(
                   Stmt(script, "expect_visible", "text:Minesweeper ready"), k)
              /\ SucceededBefore(
                   Stmt(script, "expect_visible",
                        "grid:Minesweeper game board"), k)

C9_Witness ==
  /\ Ended /\ script = "verify_minesweeper_focus" /\ StepFailed
  /\ Executed(Stmt(script, "press", "ArrowRight"))

(* C10: in verify_minesweeper, when a scenario step fails and the          *)
(* screenshot in the except clause fails too, browser.close still runs     *)
(* exactly once, no success message is printed and the exception of the    *)
(* screenshot is the one that leaves the process.                          *)
HandlerShotFailed == \E i \in DiagnosticShots(script) : Failed(i)

C10_SecondaryFault ==
  (Ended /\ script = "verify_minesweeper" /\ StepFailed /\ HandlerShotFailed)
    => /\ closeCalls = 1
       /\ browser = "closed"
       /\ ~MarkerPrinted
       /\ uncaught \in DiagnosticShots(script)
       /\ exitCode = 1

C10_Witness ==
  Ended /\ script = "verify_minesweeper" /\ StepFailed /\ HandlerShotFailed
====
